---- MODULE Spec2Model ----
(***************************************************************************)
(* Model of the genqlient runtime transport (package graphql): the client  *)
(* built by NewClient / NewClientUsingGet, client.MakeRequest with its     *)
(* three request encodings, the multipart File Upload Packer               *)
(* (findFiles, createUploadFileRequest, joinFilesMapKey), and the          *)
(* generated polymorphic unmarshal helper (unmarshal_helper.go.tmpl).      *)
(*                                                                         *)
(* Strings the code takes apart are sequences: a query is a sequence of    *)
(* lexical tokens, a file name a sequence of characters, a struct tag the  *)
(* sequence of its comma-separated parts, a dotted path the sequence of    *)
(* its dot-separated segments.  JSON documents are trees.                  *)
(***************************************************************************)
EXTENDS Integers, Sequences, FiniteSets, TLC

VARIABLES client, pc, req, sent, doerCalls, httpResp, resp, ret,
          pInput, pOut,
          wire, target, uret

vars == <<client, pc, req, sent, doerCalls, httpResp, resp, ret,
          pInput, pOut, wire, target, uret>>

transportVars == <<client, pc, req, sent, doerCalls, httpResp, resp, ret>>
packVars == <<pInput, pOut>>
helperVars == <<wire, target, uret>>

(***************************************************************************)
(* Bounds                                                                  *)
(***************************************************************************)
MaxFiles == 2
MaxLen == 1
MaxQueryLen == 2
MaxErrors == 1

None == [kind |-> "none"]

(***************************************************************************)
(* Generic helpers                                                         *)
(***************************************************************************)
RECURSIVE SeqsUpTo(_, _)
SeqsUpTo(S, n) ==
    IF n = 0 THEN {<<>>}
    ELSE LET shorter == SeqsUpTo(S, n - 1)
         IN  shorter \cup {Append(s, e) : s \in {t \in shorter : Len(t) = n - 1}, e \in S}

Range(s) == {s[i] : i \in 1..Len(s)}

(***************************************************************************)
(* io.Reader values held in Upload.Body                                    *)
(***************************************************************************)
Bytes == {1, 2}

Contents == SeqsUpTo(Bytes, MaxLen)

\* bytes.NewReader(b): a fresh stream positioned at the start of b
NewReader(b) == [data |-> b, pos |-> 0, fails |-> FALSE]

\* a reader whose Read returns an error
FailingReader == [data |-> <<>>, pos |-> 0, fails |-> TRUE]

\* the bytes io.ReadAll returns: everything from the current position on
Remaining(r) == SubSeq(r.data, r.pos + 1, Len(r.data))

\* the reader after io.ReadAll: positioned at its end
Drained(r) == [r EXCEPT !.pos = Len(r.data)]

(***************************************************************************)
(* The variables value graph, as reflect sees it                           *)
(***************************************************************************)
FileNames == {<<"a">>, <<" ">>}

Upload(name, body) == [kind |-> "upload", FileName |-> name, Body |-> body]

NilInterface == [kind |-> "nil"]
NilPtr == [kind |-> "ptr", isNil |-> TRUE]
Ptr(v) == [kind |-> "ptr", isNil |-> FALSE, elem |-> v]
Struct(fs) == [kind |-> "struct", fields |-> fs]
Slice(es) == [kind |-> "slice", elems |-> es]
String(s) == [kind |-> "string", str |-> s]
Chan == [kind |-> "chan"]
Field(name, tag, v) == [Name |-> name, Tag |-> tag, value |-> v]

FileSet == {Upload(n, b) : n \in FileNames, b \in {NewReader(c) : c \in Contents} \cup {FailingReader}}

\* InputWithDefaults of the DefaultInputs snapshot: no Upload leaves
InputWithDefaults(f, n) ==
    Struct(<<Field("Field", <<"field", "omitempty">>, String(f)),
             Field("NullableField", <<"nullableField", "omitempty">>, String(n))>>)

DefaultInputsInput(f, n) ==
    Ptr(Struct(<<Field("Input", <<"input">>, InputWithDefaults(f, n))>>))

\* an operation input carrying files: a list, an optional file, a plain one
UploadInput(files, avatar) ==
    Ptr(Struct(<<Field("Input", <<"input">>,
                   Struct(<<Field("Files", <<"files">>, Slice(files)),
                            Field("Avatar", <<"avatar", "omitempty">>, avatar),
                            Field("Note", <<>>, String("x")),
                            Field("Skipped", <<"-">>, String("x"))>>))>>))

PlainUploadInput(file) ==
    Ptr(Struct(<<Field("Doc", <<>>, file)>>))

PackVariables ==
    {NilInterface, NilPtr, Chan, DefaultInputsInput("", "x")}
    \cup {UploadInput(fs, av) : fs \in SeqsUpTo(FileSet, MaxFiles),
                                av \in {NilPtr} \cup {Ptr(f) : f \in FileSet}}
    \cup {PlainUploadInput(f) : f \in FileSet}

(***************************************************************************)
(* findFiles: recursively find all the values of type Upload               *)
(***************************************************************************)
\* strconv.Itoa(i), as a one-part path segment
Itoa(i) == <<ToString(i)>>

\* the name findFiles gives a struct field: the whole json tag when it is
\* neither empty nor "-", the Go field name otherwise
FieldKey(f) == IF f.Tag # <<>> /\ f.Tag # <<"-">> THEN f.Tag ELSE <<f.Name>>

FileVariable(key, file) == [mapKey |-> key, file |-> file]

Found(fs) == [panic |-> FALSE, files |-> fs]
Panicked == [panic |-> TRUE, files |-> <<>>]

Join(a, b) == IF a.panic \/ b.panic THEN Panicked ELSE Found(a.files \o b.files)

RECURSIVE findFiles(_, _)
RECURSIVE findFilesFields(_, _, _)
RECURSIVE findFilesElems(_, _, _)

findFiles(parentKey, v0) ==
    IF v0.kind = "ptr" /\ v0.isNil THEN Found(<<>>)
    ELSE LET v == IF v0.kind = "ptr" THEN v0.elem ELSE v0
         IN  CASE v.kind = "nil" -> Panicked   \* v.Type() on the zero reflect.Value
               [] v.kind = "upload" -> Found(<<FileVariable(parentKey, v)>>)
               [] v.kind = "struct" -> findFilesFields(parentKey, v.fields, 1)
               [] v.kind = "slice" -> findFilesElems(parentKey, v.elems, 1)
               [] OTHER -> Found(<<>>)

findFilesFields(parentKey, fields, i) ==
    IF i > Len(fields) THEN Found(<<>>)
    ELSE Join(findFiles(Append(parentKey, FieldKey(fields[i])), fields[i].value),
              findFilesFields(parentKey, fields, i + 1))

findFilesElems(parentKey, elems, i) ==
    IF i > Len(elems) THEN Found(<<>>)
    ELSE Join(findFiles(Append(parentKey, Itoa(i - 1)), elems[i]),
              findFilesElems(parentKey, elems, i + 1))

(***************************************************************************)
(* encoding/json: Marshal of the values above, as a JSON tree              *)
(***************************************************************************)
JNull == [t |-> "null"]
JStr(s) == [t |-> "str", s |-> s]
JBool(b) == [t |-> "bool", b |-> b]
JArr(es) == [t |-> "arr", elems |-> es]
JObj(ms) == [t |-> "obj", members |-> ms]
Member(k, v) == [k |-> k, v |-> v]

\* the key encoding/json serializes a field under: the tag's name part,
\* or the Go field name when the tag has none
WireKey(f) == IF f.Tag # <<>> /\ Head(f.Tag) # "" THEN <<Head(f.Tag)>> ELSE <<f.Name>>

HasOmitEmpty(f) == Len(f.Tag) > 1 /\ "omitempty" \in Range(Tail(f.Tag))

\* encoding/json's isEmptyValue
IsEmptyValue(v) ==
    CASE v.kind = "string" -> v.str = ""
      [] v.kind = "slice" -> v.elems = <<>>
      [] v.kind = "ptr" -> v.isNil
      [] v.kind = "nil" -> TRUE
      [] OTHER -> FALSE

RECURSIVE Marshalable(_)
Marshalable(v) ==
    CASE v.kind = "chan" -> FALSE
      [] v.kind = "ptr" -> v.isNil \/ Marshalable(v.elem)
      [] v.kind = "struct" ->
            \A i \in 1..Len(v.fields) :
                \/ v.fields[i].Tag = <<"-">>
                \/ HasOmitEmpty(v.fields[i]) /\ IsEmptyValue(v.fields[i].value)
                \/ Marshalable(v.fields[i].value)
      [] v.kind = "slice" -> \A i \in 1..Len(v.elems) : Marshalable(v.elems[i])
      [] OTHER -> TRUE

RECURSIVE Marshal(_)
RECURSIVE MarshalFields(_, _)

Marshal(v) ==
    CASE v.kind = "nil" -> JNull
      [] v.kind = "ptr" -> IF v.isNil THEN JNull ELSE Marshal(v.elem)
      [] v.kind = "upload" -> JNull           \* Upload.MarshalJSON
      [] v.kind = "string" -> JStr(v.str)
      [] v.kind = "struct" -> JObj(MarshalFields(v.fields, 1))
      [] v.kind = "slice" -> JArr([i \in 1..Len(v.elems) |-> Marshal(v.elems[i])])
      [] OTHER -> JNull

MarshalFields(fields, i) ==
    IF i > Len(fields) THEN <<>>
    ELSE LET f == fields[i]
             rest == MarshalFields(fields, i + 1)
         IN  IF f.Tag = <<"-">> \/ (HasOmitEmpty(f) /\ IsEmptyValue(f.value))
             THEN rest
             ELSE <<Member(WireKey(f), Marshal(f.value))>> \o rest

\* Marshal of a Request (Query, Variables `omitempty`, OpName, UploadFile)
MarshalRequest(r) ==
    JObj(<<Member(<<"query">>, JStr(r.Query))>>
         \o (IF r.Variables.kind = "nil" THEN <<>>
             ELSE <<Member(<<"variables">>, Marshal(r.Variables))>>)
         \o <<Member(<<"operationName">>, JStr(r.OpName)),
              Member(<<"UploadFile">>, JBool(r.UploadFile))>>)

Keys(j) == [i \in 1..Len(j.members) |-> j.members[i].k]

\* the value a dotted path addresses in a JSON document
Missing == [t |-> "missing"]

RECURSIVE Resolve(_, _)
Resolve(j, path) ==
    IF path = <<>> THEN j
    ELSE CASE j.t = "obj" ->
                LET hits == {i \in 1..Len(j.members) : j.members[i].k = Head(path)}
                IN  IF hits = {} THEN Missing
                    ELSE Resolve(j.members[CHOOSE i \in hits : TRUE].v, Tail(path))
           [] j.t = "arr" ->
                LET hits == {i \in 1..Len(j.elems) : Itoa(i - 1) = Head(path)}
                IN  IF hits = {} THEN Missing
                    ELSE Resolve(j.elems[CHOOSE i \in hits : TRUE], Tail(path))
           [] OTHER -> Missing

(***************************************************************************)
(* strings                                                                 *)
(***************************************************************************)
Space == {" ", "\n", "\t"}

RECURSIVE TrimLeft(_)
TrimLeft(s) == IF s # <<>> /\ Head(s) \in Space THEN TrimLeft(Tail(s)) ELSE s

RECURSIVE TrimRight(_)
TrimRight(s) ==
    IF s # <<>> /\ s[Len(s)] \in Space THEN TrimRight(SubSeq(s, 1, Len(s) - 1)) ELSE s

\* strings.TrimSpace
TrimSpace(s) == TrimRight(TrimLeft(s))

\* a piece of text that is either the empty string or a JSON document
EmptyText == [text |-> "empty"]
JSONText(j) == [text |-> "json", json |-> j]

(***************************************************************************)
(* createUploadFileRequest: the File Upload Packer                         *)
(***************************************************************************)
\* the comparison entered for every pair, whatever the file names
FileNameEqualAlways(a, b) == TRUE

\* the guard of the byte comparison: both files carry the same FileName
FileNameEqual(a, b) == a.FileName = b.FileName

\* the streams left as io.ReadAll leaves them: not re-buffered
RebufferNot(files, i, f) == files

\* file.file.Body = bytes.NewReader(f)
Rebuffer(files, i, f) == [files EXCEPT ![i].file.Body = NewReader(f)]

\* the effect of io.ReadAll(file.file.Body) on the stream it reads
Drain(files, i) == [files EXCEPT ![i].file.Body = Drained(@)]

\* the inner loop: compare fileVariables[i] with the first file of the
\* groups g, g+1, ... and join the first group it duplicates
RECURSIVE GroupFile(_, _, _)
GroupFile(st, i, g) ==
    IF g > Len(st.groups)
    THEN [st EXCEPT !.groups = Append(@, <<i>>)]
    ELSE LET j == st.groups[g][1]
         IN  IF FileNameEqual(st.files[i].file, st.files[j].file)
             THEN IF st.files[i].file.Body.fails \/ st.files[j].file.Body.fails
                  THEN [st EXCEPT !.err = "read"]
                  ELSE LET f1 == Remaining(st.files[i].file.Body)
                           f2 == Remaining(st.files[j].file.Body)
                           read == Drain(Drain(st.files, i), j)
                           files == Rebuffer(Rebuffer(read, i, f1), j, f2)
                       IN  IF f1 = f2
                           THEN [st EXCEPT !.files = files,
                                           !.groups[g] = Append(@, i)]
                           ELSE GroupFile([st EXCEPT !.files = files], i, g + 1)
             ELSE GroupFile(st, i, g + 1)

\* the outer loop over fileVariables
RECURSIVE GroupFiles(_, _)
GroupFiles(st, i) ==
    IF st.err # "none" \/ i > Len(st.files) THEN st
    ELSE GroupFiles(GroupFile(st, i, 1), i + 1)

\* only the first key of a group
joinFilesMapKeyFirst(files) == <<JStr(files[1].mapKey)>>

\* joinFilesMapKey: the quoted map keys of a group, comma-separated
joinFilesMapKey(files) == [i \in 1..Len(files) |-> JStr(files[i].mapKey)]

\* the "map" field: empty when there is no group, else {"0":[...],"1":[...]}
MapData(st) ==
    IF Len(st.groups) > 0
    THEN JSONText(JObj([g \in 1..Len(st.groups) |->
            Member(Itoa(g - 1),
                   JArr(joinFilesMapKey([k \in 1..Len(st.groups[g]) |->
                                            st.files[st.groups[g][k]]])))]))
    ELSE EmptyText

\* http.DetectContentType on the byte strings of the model
DetectContentType(b) ==
    IF b = <<>> THEN "text/plain; charset=utf-8" ELSE "application/octet-stream"

\* one multipart file part per group, read from the group's first file
FilePart(st, g) ==
    LET first == st.files[st.groups[g][1]].file
        fileName == TrimSpace(first.FileName)
        b == Remaining(first.Body)
    IN  [name |-> Itoa(g - 1),
         hasFilename |-> fileName # <<>>,
         filename |-> fileName,
         contentType |-> DetectContentType(b),
         data |-> b]

PartsFail(st) == \E g \in 1..Len(st.groups) : st.files[st.groups[g][1]].file.Body.fails

Failure(e) == [err |-> e]

\* requestBody, _ := json.Marshal(req): the marshal error is dropped
Operations(r) ==
    IF Marshalable(r.Variables) THEN JSONText(MarshalRequest(r)) ELSE EmptyText

createUploadFileRequest(c, r) ==
    IF ~c.endpointOk THEN Failure("url")
    ELSE LET found == findFiles(<<<<"variables">>>>, r.Variables)
         IN  IF found.panic THEN Failure("panic")
             ELSE LET st == GroupFiles([files |-> found.files, groups |-> <<>>, err |-> "none"], 1)
                  IN  IF st.err # "none" THEN Failure(st.err)
                      ELSE IF PartsFail(st) THEN Failure("read")
                      ELSE [err |-> "none",
                            method |-> "POST",
                            url |-> None,
                            contentType |-> "multipart/form-data",
                            operations |-> Operations(r),
                            map |-> MapData(st),
                            parts |-> [g \in 1..Len(st.groups) |-> FilePart(st, g)]]

(***************************************************************************)
(* The packer applied to a bounded set of variables                        *)
(***************************************************************************)
PackClient == [method |-> "POST", endpointOk |-> TRUE]

PackRequest(v) == [Query |-> <<"mutation">>, OpName |-> "Up", Variables |-> v, UploadFile |-> TRUE]

Pack ==
    /\ pOut = None
    /\ pOut' = createUploadFileRequest(PackClient, PackRequest(pInput))
    /\ UNCHANGED <<pInput, transportVars, helperVars>>

(***************************************************************************)
(* createPostRequest, createGetRequest                                     *)
(***************************************************************************)
\* the prefix test without strings.TrimSpace
IsMutationNoTrim(query) == query # <<>> /\ Head(query) = "mutation"

\* strings.HasPrefix(strings.TrimSpace(req.Query), "mutation")
IsMutation(query) ==
    LET q == TrimSpace(query) IN q # <<>> /\ Head(q) = "mutation"

createPostRequest(c, r) ==
    IF ~Marshalable(r.Variables) THEN Failure("marshal")
    ELSE IF ~c.endpointOk THEN Failure("url")
    ELSE [err |-> "none",
          method |-> c.method,
          url |-> None,
          contentType |-> "",
          body |-> JSONText(MarshalRequest(r))]

\* the URL parameters createGetRequest sets, in the order it sets them
GetParams(r) ==
    (IF r.Query # <<>> THEN <<Member(<<"query">>, JStr(r.Query))>> ELSE <<>>)
    \o (IF r.OpName # "" THEN <<Member(<<"operationName">>, JStr(r.OpName))>> ELSE <<>>)
    \o (IF r.Variables.kind # "nil"
        THEN <<Member(<<"variables">>, JSONText(Marshal(r.Variables)))>> ELSE <<>>)

createGetRequest(c, r) ==
    IF ~c.endpointOk THEN Failure("url")
    ELSE IF r.Query # <<>> /\ IsMutation(r.Query) THEN Failure("mutation")
    ELSE IF r.Variables.kind # "nil" /\ ~Marshalable(r.Variables) THEN Failure("marshal")
    ELSE [err |-> "none",
          method |-> c.method,
          url |-> GetParams(r),
          contentType |-> "",
          body |-> EmptyText]

(***************************************************************************)
(* client.MakeRequest                                                      *)
(***************************************************************************)
StatusOK == 200

\* the request MakeRequest builds for its client and request
BuildRequest(c, r) ==
    IF c.method = "GET" THEN createGetRequest(c, r)
    ELSE IF r.UploadFile THEN createUploadFileRequest(c, r)
    ELSE createPostRequest(c, r)

\* httpReq.Header.Set("Content-Type", "application/json") unless uploading
SetContentType(c, r, h) ==
    IF ~r.UploadFile \/ c.method = "GET"
    THEN [h EXCEPT !.contentType = "application/json"]
    ELSE h

\* every 2xx status accepted
StatusIs2xx(status) == status \in 200..299

\* the branch taken on the response status
StatusIsOK(status) == status = StatusOK

\* the error returned for a response whose status is not accepted
TransportError(d) ==
    [kind |-> "transport",
     status |-> d.StatusCode,
     body |-> IF d.body.readable THEN d.body ELSE [readable |-> FALSE, placeholder |-> "<unreadable>"]]

\* json.NewDecoder(httpResp.Body).Decode(resp) fails
DecodeFails(body) ==
    ~body.readable \/ ~body.valid \/ body.data = "mistyped"

\* the Response after Decode: keys absent from the body leave fields alone
Decoded(r0, body) ==
    IF ~body.readable \/ ~body.valid THEN r0
    ELSE [Data |-> CASE body.data = "absent" -> r0.Data
                     [] body.data = "null" -> "nil"
                     [] body.data = "mistyped" -> r0.Data
                     [] OTHER -> body.data,
          Extensions |-> IF body.extensions = "absent" THEN r0.Extensions ELSE body.extensions,
          Errors |-> body.errors]

\* the errors returned only when no data came with them
ResultOfUnlessData(r) ==
    IF Len(r.Errors) > 0 /\ r.Data # "value" THEN [kind |-> "graphql", errors |-> r.Errors]
    ELSE [kind |-> "nil"]

\* the tail of MakeRequest: resp.Errors when there are any, else nil
ResultOf(r) ==
    IF Len(r.Errors) > 0 THEN [kind |-> "graphql", errors |-> r.Errors]
    ELSE [kind |-> "nil"]

EmptyResponse == [Data |-> "empty", Extensions |-> "absent", Errors |-> <<>>]

QueryTokens == {" ", "mutation", "query"}

Clients == [method : {"GET", "POST"}, endpointOk : BOOLEAN]

NewClient(ok) == [method |-> "POST", endpointOk |-> ok]

NewClientUsingGet(ok) == [method |-> "GET", endpointOk |-> ok]

SampleFile == Upload(<<"a">>, NewReader(<<1>>))

TransportVariables ==
    {NilInterface, NilPtr, Chan, DefaultInputsInput("", "x"),
     UploadInput(<<SampleFile>>, Ptr(SampleFile)), PlainUploadInput(SampleFile)}

Requests ==
    [Query : SeqsUpTo(QueryTokens, MaxQueryLen),
     OpName : {"", "Op"},
     Variables : TransportVariables,
     UploadFile : BOOLEAN]

Statuses == {200, 201, 404}

Bodies ==
    {[readable |-> FALSE], [readable |-> TRUE, valid |-> FALSE]}
    \cup [readable : {TRUE}, valid : {TRUE},
          data : {"absent", "null", "value", "mistyped"},
          extensions : {"absent", "value"},
          errors : SeqsUpTo({"boom"}, MaxErrors)]

DoerResults ==
    {[err |-> TRUE]} \cup {[err |-> FALSE, StatusCode |-> st, body |-> b] : st \in Statuses, b \in Bodies}

\* what MakeRequest does once the request h is built: hand it to the Doer,
\* which answers d, and turn the answer into the result
Execute(h, d) ==
    /\ sent' = h
    /\ doerCalls' = doerCalls + 1
    /\ httpResp' = d
    /\ IF d.err
       THEN /\ ret' = [kind |-> "doer"]
            /\ UNCHANGED resp
       ELSE IF ~StatusIsOK(d.StatusCode)
       THEN /\ ret' = TransportError(d)
            /\ UNCHANGED resp
       ELSE /\ resp' = Decoded(resp, d.body)
            /\ ret' = IF DecodeFails(d.body) THEN [kind |-> "decode"]
                      ELSE ResultOf(resp')

\* MakeRequest(ctx, req, resp) on a request r; the Doer's answer is drawn
\* from DoerResults when the Doer is reached
MakeRequest(r) ==
    /\ pc = "ready"
    /\ pc' = "done"
    /\ req' = r
    /\ LET built == BuildRequest(client, r)
       IN  IF built.err # "none"
           THEN /\ ret' = [kind |-> built.err]
                /\ UNCHANGED <<sent, doerCalls, httpResp, resp>>
           ELSE LET h == SetContentType(client, r, built)
                IN  \E d \in DoerResults : Execute(h, d)
    /\ UNCHANGED <<client, packVars, helperVars>>

Call == \E r \in Requests : MakeRequest(r)

(***************************************************************************)
(* __unmarshal{{.GoName}}: the generated polymorphic unmarshal helper,     *)
(* instantiated for interface Node with implementations User and Bot       *)
(***************************************************************************)
Implementations == <<"User", "Bot">>

\* the fields each implementation declares besides __typename
VariantFields(name) ==
    IF name = "User" THEN <<"id", "name">> ELSE <<"id", "owner">>

Lookup(j, key) ==
    LET hits == {i \in 1..Len(j.members) : j.members[i].k = <<key>>}
    IN  IF hits = {} THEN Missing ELSE j.members[CHOOSE i \in hits : TRUE].v

\* json.Unmarshal(m, &tn): the TypeName read from the wire value
TypeNameFails(m) ==
    \/ m.t # "obj"
    \/ Lookup(m, "__typename").t \notin {"missing", "null", "str"}

TypeNameOf(m) ==
    LET tn == Lookup(m, "__typename")
    IN  IF tn.t = "str" THEN tn.s ELSE ""

\* json.Unmarshal(m, *v) into the variant's struct of string fields
VariantFails(m, name) ==
    \E i \in 1..Len(VariantFields(name)) :
        Lookup(m, VariantFields(name)[i]).t \notin {"missing", "null", "str"}

VariantValue(m, name) ==
    [variant |-> name,
     fields |-> [i \in 1..Len(VariantFields(name)) |->
                    LET f == Lookup(m, VariantFields(name)[i])
                    IN  [name |-> VariantFields(name)[i],
                         value |-> IF f.t = "str" THEN f.s ELSE ""]]]

\* the default arm decoding into the first implementation
unmarshalHelperDefaulting(v, m) ==
    IF m.t = "null" THEN [err |-> "nil", v |-> v]
    ELSE IF TypeNameFails(m) THEN [err |-> "json", v |-> v]
    ELSE LET tn == TypeNameOf(m)
         IN  IF tn \in Range(Implementations)
             THEN [err |-> IF VariantFails(m, tn) THEN "json" ELSE "nil",
                   v |-> VariantValue(m, tn)]
             ELSE IF tn = ""
             THEN [err |-> "missing __typename", v |-> v]
             ELSE [err |-> IF VariantFails(m, Implementations[1]) THEN "json" ELSE "nil",
                   v |-> VariantValue(m, Implementations[1])]

\* the helper's outcome: the error it returns and the value left in *v
unmarshalHelper(v, m) ==
    IF m.t = "null" THEN [err |-> "nil", v |-> v]
    ELSE IF TypeNameFails(m) THEN [err |-> "json", v |-> v]
    ELSE LET tn == TypeNameOf(m)
         IN  IF tn \in Range(Implementations)
             THEN [err |-> IF VariantFails(m, tn) THEN "json" ELSE "nil",
                   v |-> VariantValue(m, tn)]
             ELSE IF tn = ""
             THEN [err |-> "missing __typename", v |-> v]
             ELSE [err |-> "unexpected concrete type", v |-> v]

TypeNameMembers ==
    {<<>>} \cup {<<Member(<<"__typename">>, t)>> :
                    t \in {JNull, JBool(TRUE), JStr(""), JStr("User"), JStr("Bot"), JStr("Robot")}}

OptionalMember(key, values) == {<<>>} \cup {<<Member(<<key>>, x)>> : x \in values}

WireValues ==
    {JNull, JStr("User"), JArr(<<>>)}
    \cup {JObj(t \o i \o n \o o) :
            t \in TypeNameMembers,
            i \in OptionalMember("id", {JStr("1"), JBool(TRUE)}),
            n \in OptionalMember("name", {JStr("Ada"), JBool(TRUE)}),
            o \in OptionalMember("owner", {JStr("Ada")})}

Unmarshal ==
    /\ uret = None
    /\ LET out == unmarshalHelper(target, wire)
       IN  /\ uret' = [err |-> out.err]
           /\ target' = out.v
    /\ UNCHANGED <<wire, transportVars, packVars>>

(***************************************************************************)
(* Specifications                                                          *)
(***************************************************************************)
TransportIdle ==
    /\ pc = "ready"
    /\ req = None
    /\ sent = None
    /\ doerCalls = 0
    /\ httpResp = None
    /\ resp = EmptyResponse
    /\ ret = None

PackIdle == pInput = NilInterface /\ pOut = None

HelperIdle == wire = JNull /\ target = None /\ uret = None

\* a client built by NewClient or NewClientUsingGet, before any call
Init ==
    /\ client \in {NewClient(ok) : ok \in BOOLEAN} \cup {NewClientUsingGet(ok) : ok \in BOOLEAN}
    /\ TransportIdle
    /\ PackIdle
    /\ HelperIdle

Next == Call

Spec == Init /\ [][Next]_vars

\* the packer applied to each value graph of PackVariables
InitPack ==
    /\ client = PackClient
    /\ TransportIdle
    /\ pInput \in PackVariables
    /\ pOut = None
    /\ HelperIdle

NextPack == Pack

SpecPack == InitPack /\ [][NextPack]_vars

\* the helper applied to each wire value of WireValues
InitHelper ==
    /\ client = PackClient
    /\ TransportIdle
    /\ PackIdle
    /\ wire \in WireValues
    /\ target = None
    /\ uret = None

NextHelper == Unmarshal

SpecHelper == InitHelper /\ [][NextHelper]_vars

(***************************************************************************)
(* Properties of the File Upload Packer (checked under SpecPack)           *)
(***************************************************************************)
PackedOK == pOut # None /\ pOut.err = "none"

\* the File Values of the input, in the order of the depth-first walk
Collected == findFiles(<<<<"variables">>>>, pInput).files

\* the bytes a File Value carries when it is handed to the packer
ContentOf(f) == Remaining(f.file.Body)

\* the entries of the packed "map" field
MapEntries == IF pOut.map.text = "json" THEN pOut.map.json.members ELSE <<>>

\* the parts whose map entry lists a path
PartsOf(path) ==
    {g \in 1..Len(MapEntries) :
        \E k \in 1..Len(MapEntries[g].v.elems) : MapEntries[g].v.elems[k] = JStr(path)}

SharePart(f1, f2) ==
    \E g \in 1..Len(pOut.parts) : PartsOf(f1.mapKey) = {g} /\ PartsOf(f2.mapKey) = {g}

DistinctParts(f1, f2) ==
    \E g1, g2 \in 1..Len(pOut.parts) :
        g1 # g2 /\ PartsOf(f1.mapKey) = {g1} /\ PartsOf(f2.mapKey) = {g2}

\* C1 as stated: two File Values at different paths share one part exactly
\* when their byte contents are identical, whatever their file names
C1_ContentAlone ==
    PackedOK =>
        \A i, j \in 1..Len(Collected) :
            i # j =>
                IF ContentOf(Collected[i]) = ContentOf(Collected[j])
                THEN SharePart(Collected[i], Collected[j])
                ELSE DistinctParts(Collected[i], Collected[j])

\* C1 amended: two File Values at different paths share one part (the map
\* listing both paths under its index) exactly when both their file names
\* and their byte contents are identical; otherwise they get two parts
C1_NameAndContent ==
    PackedOK =>
        \A i, j \in 1..Len(Collected) :
            i # j =>
                IF /\ Collected[i].file.FileName = Collected[j].file.FileName
                   /\ ContentOf(Collected[i]) = ContentOf(Collected[j])
                THEN SharePart(Collected[i], Collected[j])
                ELSE DistinctParts(Collected[i], Collected[j])

\* two files with the same bytes under different names were packed, and two
\* with the same name and bytes
C1_Witness ==
    /\ PackedOK
    /\ \E i, j \in 1..Len(Collected) :
          /\ i # j
          /\ ContentOf(Collected[i]) = ContentOf(Collected[j])
          /\ Collected[i].file.FileName # Collected[j].file.FileName
          /\ DistinctParts(Collected[i], Collected[j])
    /\ \E i, j \in 1..Len(Collected) :
          /\ i # j
          /\ Collected[i].file = Collected[j].file
          /\ SharePart(Collected[i], Collected[j])

\* a value graph holds a File Value somewhere
RECURSIVE ContainsUpload(_)
ContainsUpload(v) ==
    CASE v.kind = "upload" -> TRUE
      [] v.kind = "ptr" -> ~v.isNil /\ ContainsUpload(v.elem)
      [] v.kind = "struct" -> \E i \in 1..Len(v.fields) : ContainsUpload(v.fields[i].value)
      [] v.kind = "slice" -> \E i \in 1..Len(v.elems) : ContainsUpload(v.elems[i])
      [] OTHER -> FALSE

\* C7: packing variables that hold no File Value succeeds, with the
\* serialized envelope as operations, a valid empty JSON object as map, and
\* no file parts
C7_EmptyFileSet ==
    (pOut # None /\ ~ContainsUpload(pInput)) =>
        /\ pOut.err = "none"
        /\ pOut.operations = JSONText(MarshalRequest(PackRequest(pInput)))
        /\ pOut.map = JSONText(JObj(<<>>))
        /\ pOut.parts = <<>>

\* position of a path in the depth-first walk
WalkIndex(path) == CHOOSE i \in 1..Len(Collected) : Collected[i].mapKey = path

EntryPaths(g) == [k \in 1..Len(MapEntries[g].v.elems) |-> MapEntries[g].v.elems[k].s]

\* C8: the groups partition the collected paths; map keys and part names
\* are exactly "0".."N-1", one part per group, numbered by first occurrence
C8_GroupsPartition ==
    PackedOK =>
        /\ Len(MapEntries) = Len(pOut.parts)
        /\ \A g \in 1..Len(pOut.parts) :
              /\ MapEntries[g].k = <<ToString(g - 1)>>
              /\ pOut.parts[g].name = <<ToString(g - 1)>>
              /\ Len(EntryPaths(g)) > 0
              /\ \A k \in 1..Len(EntryPaths(g)) :
                    \E i \in 1..Len(Collected) : Collected[i].mapKey = EntryPaths(g)[k]
        /\ \A i \in 1..Len(Collected) :
              Cardinality({gk \in {<<g, k>> : g \in 1..Len(MapEntries), k \in 1..Len(Collected)} :
                              /\ gk[2] <= Len(EntryPaths(gk[1]))
                              /\ EntryPaths(gk[1])[gk[2]] = Collected[i].mapKey}) = 1
        /\ \A g \in 1..Len(MapEntries) :
              /\ \A k \in 2..Len(EntryPaths(g)) :
                    WalkIndex(EntryPaths(g)[1]) < WalkIndex(EntryPaths(g)[k])
              /\ g > 1 => WalkIndex(EntryPaths(g - 1)[1]) < WalkIndex(EntryPaths(g)[1])

\* three files were packed into two groups, one of them holding two paths
C8_Witness ==
    /\ PackedOK
    /\ Len(Collected) = 3
    /\ Len(pOut.parts) = 2
    /\ \E g \in 1..2 : Len(EntryPaths(g)) = 2

\* the number of File Values a value graph holds
RECURSIVE CountUploads(_)
RECURSIVE CountUploadsIn(_, _)
CountUploads(v) ==
    CASE v.kind = "upload" -> 1
      [] v.kind = "ptr" -> IF v.isNil THEN 0 ELSE CountUploads(v.elem)
      [] v.kind = "struct" -> CountUploadsIn([i \in 1..Len(v.fields) |-> v.fields[i].value], 1)
      [] v.kind = "slice" -> CountUploadsIn(v.elems, 1)
      [] OTHER -> 0

CountUploadsIn(vs, i) ==
    IF i > Len(vs) THEN 0 ELSE CountUploads(vs[i]) + CountUploadsIn(vs, i + 1)

\* C9: every path of the map addresses the null placeholder of its file in
\* the operations JSON, and every File Value of the graph is collected once
C9_PathsAddressPlaceholders ==
    (PackedOK /\ pOut.operations.text = "json") =>
        /\ Len(Collected) = CountUploads(pInput)
        /\ \A g \in 1..Len(MapEntries) :
              \A k \in 1..Len(EntryPaths(g)) :
                  Resolve(pOut.operations.json, EntryPaths(g)[k]) = JNull

\* C10: the part written for a group carries the complete original bytes of
\* the group's first File Value, however often it was read for comparison
C10_PartsKeepContent ==
    PackedOK =>
        \A g \in 1..Len(pOut.parts) :
            pOut.parts[g].data = ContentOf(Collected[WalkIndex(EntryPaths(g)[1])])

\* a non-empty file was compared with two later files, one of the same
\* bytes and one of different bytes, before its part was written
C10_Witness ==
    /\ PackedOK
    /\ Len(Collected) = 3
    /\ Collected[1].file.FileName = Collected[2].file.FileName
    /\ Collected[1].file.FileName = Collected[3].file.FileName
    /\ ContentOf(Collected[1]) # <<>>
    /\ ContentOf(Collected[2]) # ContentOf(Collected[1])
    /\ ContentOf(Collected[3]) = ContentOf(Collected[1])
    /\ pOut.parts[1].data = ContentOf(Collected[1])

(***************************************************************************)
(* Properties of MakeRequest (checked under Spec)                          *)
(***************************************************************************)
\* the query text begins, after leading whitespace, with the keyword mutation
BeginsWithMutation(q) ==
    \E i \in 1..Len(q) : q[i] = "mutation" /\ \A j \in 1..(i - 1) : q[j] \in Space

Responded == pc = "done" /\ httpResp # None /\ ~httpResp.err

\* C2 as stated: a GET client given a mutation returns the
\* unsupported-operation error and never invokes the Doer
C2_MutationRejected ==
    (pc = "done" /\ client.method = "GET" /\ BeginsWithMutation(req.Query)) =>
        /\ ret.kind = "mutation"
        /\ doerCalls = 0

\* C2 amended: a GET client given a mutation never invokes the Doer and
\* returns an error: the unsupported-operation error when the client's
\* endpoint parses as a URL, the URL parse error when it does not
C2_MutationNeverSent ==
    (pc = "done" /\ client.method = "GET" /\ BeginsWithMutation(req.Query)) =>
        /\ doerCalls = 0
        /\ sent = None
        /\ ret.kind = IF client.endpointOk THEN "mutation" ELSE "url"

\* a mutation behind leading whitespace, with variables, an operation name
\* and the UploadFile flag, was refused by a GET client
C2_Witness ==
    /\ pc = "done"
    /\ client = NewClientUsingGet(TRUE)
    /\ req.Query = <<" ", "mutation">>
    /\ req.UploadFile
    /\ req.OpName = "Op"
    /\ req.Variables # NilInterface
    /\ ret.kind = "mutation"
    /\ doerCalls = 0

\* C3 as stated: the body is decoded for every 2xx status, and a transport
\* error with the status and raw body is returned exactly when it is not 2xx
C3_Any2xxDecoded ==
    Responded =>
        /\ ret.kind = "transport" <=> httpResp.StatusCode \notin 200..299
        /\ ret.kind = "transport" =>
              /\ ret.status = httpResp.StatusCode
              /\ ret.body.readable => ret.body = httpResp.body

\* C3 amended: the body is decoded only for status 200; a transport error
\* with the status and the raw body (or the unreadable-body placeholder) is
\* returned exactly when the status is not 200
C3_Only200Decoded ==
    Responded =>
        /\ ret.kind = "transport" <=> httpResp.StatusCode # 200
        /\ ret.kind = "transport" =>
              /\ ret.status = httpResp.StatusCode
              /\ resp = EmptyResponse
              /\ IF httpResp.body.readable
                 THEN ret.body = httpResp.body
                 ELSE ret.body.placeholder = "<unreadable>"
        /\ (httpResp.StatusCode = 200 /\ httpResp.body.readable /\ httpResp.body.valid) =>
              /\ resp.Errors = httpResp.body.errors
              /\ httpResp.body.data = "value" => resp.Data = "value"
              /\ httpResp.body.extensions = "value" => resp.Extensions = "value"

\* a 201 response with a well-formed body came back as a transport error
C3_Witness ==
    /\ Responded
    /\ httpResp.StatusCode = 201
    /\ httpResp.body.readable
    /\ httpResp.body.valid
    /\ httpResp.body.data = "value"
    /\ ret.kind = "transport"
    /\ ret.body = httpResp.body

DecodedOK ==
    /\ Responded
    /\ httpResp.StatusCode = 200
    /\ httpResp.body.readable
    /\ httpResp.body.valid
    /\ httpResp.body.data # "mistyped"

\* C4: a decoded response with errors is returned as that error list even
\* with data present, the response object keeping data and extensions; nil
\* is returned only for status OK, a successful decode and no errors
C4_ErrorsTakePriority ==
    /\ (DecodedOK /\ Len(httpResp.body.errors) > 0) =>
          /\ ret = [kind |-> "graphql", errors |-> httpResp.body.errors]
          /\ httpResp.body.data = "value" => resp.Data = "value"
          /\ httpResp.body.extensions = "value" => resp.Extensions = "value"
    /\ (pc = "done" /\ ret.kind = "nil") =>
          /\ DecodedOK
          /\ httpResp.body.errors = <<>>

\* a 200 response with data, extensions and an error was returned as errors
C4_Witness ==
    /\ DecodedOK
    /\ httpResp.body.data = "value"
    /\ httpResp.body.extensions = "value"
    /\ Len(httpResp.body.errors) > 0
    /\ ret.kind = "graphql"
    /\ resp.Data = "value"
    /\ resp.Extensions = "value"

HasTypeNameKey(m) == m.t = "obj" /\ Lookup(m, "__typename") # Missing

====
